---- MODULE Spec2Model ----
(***************************************************************************)
(* TOTP code generator extension: the Base32 codec and the domain-keyed    *)
(* secret store of popup.js (TOTPGenerator, StorageManager, UIController). *)
(*                                                                         *)
(* Text is modelled as a sequence of one-character strings, so that        *)
(* trim(), replace(), toUpperCase() and indexOf() are computed as the      *)
(* code computes them.  A falsy text value (undefined, null, '') is the    *)
(* empty sequence and a falsy number (undefined, null, 0) is 0: the code   *)
(* only ever tests these values with ! and ||.                             *)
(***************************************************************************)
EXTENDS Integers, Sequences, FiniteSets, TLC

\* ------------------------------------------------------------------ bounds
\* the clock (milliseconds) runs over 0..MaxTime
MaxTime == 1
\* Math.random() draws one of the values 0..MaxRand
MaxRand == 0
\* at most MaxRecords records are ever stored
MaxRecords == 2
\* an import document has at most MaxDocLen entries
MaxDocLen == 2

\* ------------------------------------------------------------ text helpers
Times == 0..MaxTime

Whitespace == {" "}

RECURSIVE TrimStart(_)
TrimStart(s) ==
  IF s # <<>> /\ Head(s) \in Whitespace THEN TrimStart(Tail(s)) ELSE s

RECURSIVE TrimEnd(_)
TrimEnd(s) ==
  IF s # <<>> /\ s[Len(s)] \in Whitespace
  THEN TrimEnd(SubSeq(s, 1, Len(s) - 1)) ELSE s

\* String.prototype.trim
Trim(s) == TrimEnd(TrimStart(s))

\* replace(/\s/g, '')
RemoveWhitespace(s) == SelectSeq(s, LAMBDA c : c \notin Whitespace)

\* replace(/=+$/, '')
RECURSIVE StripPadding(_)
StripPadding(s) ==
  IF s # <<>> /\ s[Len(s)] = "="
  THEN StripPadding(SubSeq(s, 1, Len(s) - 1)) ELSE s

LowerCase == <<"a","b","c","d","e","f","g","h","i","j","k","l","m",
               "n","o","p","q","r","s","t","u","v","w","x","y","z">>
UpperCase == <<"A","B","C","D","E","F","G","H","I","J","K","L","M",
               "N","O","P","Q","R","S","T","U","V","W","X","Y","Z">>

\* String.prototype.indexOf for one character (0-based, -1 when absent)
IndexOf(str, c) ==
  IF \E i \in 1..Len(str) : str[i] = c
  THEN (CHOOSE i \in 1..Len(str) :
          str[i] = c /\ \A j \in 1..(i - 1) : str[j] # c) - 1
  ELSE -1

\* letters outside ASCII that toUpperCase() turns into an ASCII letter,
\* each written by its code point: dotless i (-> I) and long s (-> S)
OtherLowerCase == <<"U+0131", "U+017F">>
OtherUpperCase == <<"I", "S">>

\* String.prototype.toUpperCase for one character
ToUpperCase(c) ==
  IF IndexOf(LowerCase, c) >= 0 THEN UpperCase[IndexOf(LowerCase, c) + 1]
  ELSE IF IndexOf(OtherLowerCase, c) >= 0
       THEN OtherUpperCase[IndexOf(OtherLowerCase, c) + 1]
       ELSE c

\* ------------------------------------------------------------------- codec
base32Chars == UpperCase \o <<"2","3","4","5","6","7">>

\* val.toString(2).padStart(5, '0') for 0 <= val < 32
Bits5(val) ==
  << (val \div 16) % 2, (val \div 8) % 2, (val \div 4) % 2,
     (val \div 2) % 2, val % 2 >>

\* parseInt(bits.substr(i * 8, 8), 2)
ByteAt(bits, i) ==
  LET b == SubSeq(bits, i * 8 + 1, i * 8 + 8)
  IN  128 * b[1] + 64 * b[2] + 32 * b[3] + 16 * b[4]
      + 8 * b[5] + 4 * b[6] + 2 * b[7] + b[8]

RECURSIVE Base32Bits(_)
Base32Bits(encoded) ==
  IF encoded = <<>> THEN <<>>
  ELSE Bits5(IndexOf(base32Chars, ToUpperCase(Head(encoded))))
       \o Base32Bits(Tail(encoded))

\* TOTPGenerator.base32Decode: ok = FALSE stands for the thrown
\* 'Invalid base32 character'
base32Decode(encoded0) ==
  LET encoded == StripPadding(encoded0)
      bad     == \E i \in 1..Len(encoded) :
                   IndexOf(base32Chars, ToUpperCase(encoded[i])) = -1
  IN  IF bad THEN [ok |-> FALSE, bytes |-> <<>>]
      ELSE LET bits == Base32Bits(encoded)
           IN  [ok |-> TRUE,
                bytes |-> [i \in 1..(Len(bits) \div 8) |-> ByteAt(bits, i - 1)]]

\* validateSecret whose catch block also returns true
validateSecretLenient(secret) == base32Decode(secret).ok \/ TRUE

\* TOTPGenerator.validateSecret
validateSecret(secret) == base32Decode(secret).ok

\* ------------------------------------------------------------------- state
VARIABLES
  storage,        \* chrome.storage.local: website key -> array of records
  now,            \* the wall clock, Date.now()
  view,           \* per popup: "main" or "edit" (which view is shown)
  editingSecret,  \* per popup: UIController.editingSecret, <<>> is null
  pc,             \* per popup: the await its running handler is suspended at
  work,           \* per popup: the locals of that handler
  last            \* history: the store operation the last step completed

vars == <<storage, now, view, editingSecret, pc, work, last>>

Popups == {"p1", "p2"}

NoId == <<>>        \* secret.id === undefined
NoTime == <<>>      \* createdAt / updatedAt === undefined

\* parseInt('') and parseInt of any non-numeric text
NaN == -1

\* x is truthy, for a number
Truthy(x) == x # 0 /\ x # NaN

\* a || b, for numbers
OrElse(a, b) == IF Truthy(a) THEN a ELSE b

\* ---------------------------------------------- TOTPGenerator.generateTOTP
\* the timestamp argument: <<>> is null (the default), <<t>> is a number
NoTimestamp == <<>>

\* timestamp || Math.floor(Date.now() / 1000), clock being the latter
TimeUsed(timestamp, clock) ==
  IF timestamp # NoTimestamp /\ Truthy(timestamp[1]) THEN timestamp[1] ELSE clock

\* new ArrayBuffer(8) after counterView.setUint32(4, counter, false)
\* (the four low-order bytes of counter, the four bytes before them zero)
counterBytes(counter) ==
  << 0, 0, 0, 0,
     (counter \div 16777216) % 256, (counter \div 65536) % 256,
     (counter \div 256) % 256, counter % 256 >>

\* hmacSha1: crypto.subtle computes the digest; it is kept symbolic, as the
\* key and the message that determine it
hmacSha1(key, data) == <<key, data>>

\* the code string: the dynamic truncation of the digest, reduced mod
\* 10^digits and padded to digits characters; determined by digest and digits
codeOf(hmac, digits) == [hmac |-> hmac, digits |-> digits]

\* popup.js TOTPGenerator.generateTOTP at wall-clock second clock; ok is
\* FALSE when it throws 'Invalid secret key'
generateTOTP(secret, timestamp, digits, period, clock) ==
  LET key           == base32Decode(secret)
      time          == TimeUsed(timestamp, clock)
      counter       == time \div period
      timeRemaining == period - (time % period)
  IN  IF ~key.ok
      THEN [ok |-> FALSE, code |-> <<>>, timeRemaining |-> 0]
      ELSE [ok |-> TRUE,
            code |-> <<codeOf(hmacSha1(key.bytes, counterBytes(counter)), digits)>>,
            timeRemaining |-> timeRemaining]

\* Numbers beyond 31 bits are written as four 16-bit limbs, most significant
\* first (JavaScript numbers are exact far beyond 32 bits).
Limb == 65536

Limbs(n) == << 0, 0, (n \div Limb) % Limb, n % Limb >>

\* Math.floor(time / period) on limbs: schoolbook division by the small
\* number period, rem being the remainder carried into limb i
RECURSIVE DivRem(_, _, _)
DivRem(limbs, period, i) ==
  IF i = 0 THEN 0
  ELSE (DivRem(limbs, period, i - 1) * Limb + limbs[i]) % period

DivLimbs(limbs, period) ==
  [i \in 1..4 |-> (DivRem(limbs, period, i - 1) * Limb + limbs[i]) \div period]

\* new ArrayBuffer(8), then setUint32(4, counter, false): the buffer starts
\* as zeros, and ToUint32 keeps the low 32 bits of counter, written into
\* bytes 4..7 with the most significant byte first
counterBytesOfLimbs(counter) ==
  << 0, 0, 0, 0,
     counter[3] \div 256, counter[3] % 256,
     counter[4] \div 256, counter[4] % 256 >>

\* x << 24 for a byte x: the result is a 32-bit signed integer, negative when
\* bit 7 of x is set
ShiftLeft24(x) ==
  IF x >= 128 THEN (x - 256) * 16777216 ELSE x * 16777216

\* a | b for operands that share no set bit
BitOr(a, b) == a + b

\* a % m of JavaScript: the remainder has the sign of a
Remainder(a, m) ==
  IF a >= 0 \/ a % m = 0 THEN a % m ELSE (a % m) - m

Digits == <<"0", "1", "2", "3", "4", "5", "6", "7", "8", "9">>

RECURSIVE DecimalDigits(_)
DecimalDigits(n) ==
  IF n < 10 THEN <<Digits[n + 1]>>
  ELSE DecimalDigits(n \div 10) \o <<Digits[(n % 10) + 1]>>

\* Number.prototype.toString for an integer
toString(n) ==
  IF n < 0 THEN <<"-">> \o DecimalDigits(0 - n) ELSE DecimalDigits(n)

\* String.prototype.padStart with a one-character filler
padStart(str, targetLength, c) ==
  IF Len(str) >= targetLength THEN str
  ELSE [i \in 1..(targetLength - Len(str)) |-> c] \o str

\* the dynamic truncation that keeps all eight bits of the first byte
truncateUnmasked(hmac) ==
  LET offset == hmac[Len(hmac)] % 16
  IN  BitOr(BitOr(BitOr(ShiftLeft24(hmac[offset + 1] % 256),
                        (hmac[offset + 2] % 256) * 65536),
                  (hmac[offset + 3] % 256) * 256),
            hmac[offset + 4] % 256)

\* generateTOTP after hmacSha1 has resolved: the number cut out of the
\* digest (hmac[i] of the code is hmac[i + 1] here)
truncate(hmac) ==
  LET offset == hmac[Len(hmac)] % 16
  IN  BitOr(BitOr(BitOr(ShiftLeft24(hmac[offset + 1] % 128),
                        (hmac[offset + 2] % 256) * 65536),
                  (hmac[offset + 3] % 256) * 256),
            hmac[offset + 4] % 256)

\* ... and the code string made of it
codeString(hmac, digits) ==
  padStart(toString(Remainder(truncate(hmac), 10 ^ digits)), digits, "0")

\* background.js TOTPGenerator.generateTOTP: the same computation, it
\* returns the code string alone
backgroundGenerateTOTP(secret, timestamp, digits, period, clock) ==
  LET key     == base32Decode(secret)
      time    == TimeUsed(timestamp, clock)
      counter == time \div period
  IN  IF ~key.ok
      THEN [ok |-> FALSE, code |-> <<>>]
      ELSE [ok |-> TRUE,
            code |-> <<codeOf(hmacSha1(key.bytes, counterBytes(counter)), digits)>>]

\* ------------------------------------------------------------- HTML selects
\* popup.html: <select id="secretDigits">, <select id="secretPeriod">
DigitsOptions == {6, 8}
PeriodOptions == {30, 60}

\* select.value = v: the option with that value is selected, or none is
\* (the select then reads '' and parseInt('') is NaN)
SelectAssign(options, v) == IF v \in options THEN v ELSE NaN

\* ----------------------------------------------------------- StorageManager
\* StorageManager.getSecretsForDomain: result[domain] || []
getSecretsForDomain(st, domain) ==
  IF domain \in DOMAIN st THEN st[domain] ELSE <<>>

\* chrome.storage.local.set({ [key]: value })
StorageSet(st, key, value) ==
  [k \in (DOMAIN st) \cup {key} |-> IF k = key THEN value ELSE st[k]]

\* Array.prototype.findIndex(s => s.id === id), 1-based, 0 for -1
findIndex(secrets, id) ==
  IF \E i \in 1..Len(secrets) : secrets[i].id = id
  THEN CHOOSE i \in 1..Len(secrets) :
         secrets[i].id = id /\ \A j \in 1..(i - 1) : secrets[j].id # id
  ELSE 0

\* StorageManager.generateId: Date.now().toString(36) followed by the
\* digits of Math.random().toString(36); the time part has a fixed width,
\* so the concatenation is the pair
generateId(t, r) == <<t, r>>

\* the clock readings and the random draw one saveSecret call makes:
\* Date.now() in generateId, then new Date() for createdAt and updatedAt
Draws(t0) ==
  { d \in [tId : Times, r : 0..MaxRand, tC : Times, tU : Times] :
      t0 <= d.tId /\ d.tId <= d.tC /\ d.tC <= d.tU }

\* saveSecret that looks the id up in every bucket and replaces the record
\* where it finds it
saveSecretInPlace(st, secret, d) ==
  LET holders == { k \in DOMAIN st : findIndex(st[k], secret.id) >= 1 }
  IN  IF holders # {}
      THEN LET k == CHOOSE h \in holders : TRUE
           IN  StorageSet(st, k,
                 [st[k] EXCEPT ![findIndex(st[k], secret.id)] =
                    [secret EXCEPT !.updatedAt = <<d.tU>>]])
      ELSE StorageSet(st, secret.website,
             Append(getSecretsForDomain(st, secret.website),
               [secret EXCEPT !.id = generateId(d.tId, d.r),
                              !.createdAt = <<d.tC>>,
                              !.updatedAt = <<d.tU>>]))

\* saveSecret written with secrets.unshift(secret): a new record is put
\* first
savedBucketUnshift(secrets, secret, d) ==
  LET existingIndex == findIndex(secrets, secret.id)
  IN  IF existingIndex >= 1
      THEN [secrets EXCEPT ![existingIndex] =
              [secret EXCEPT !.updatedAt = <<d.tU>>]]
      ELSE << [secret EXCEPT !.id = generateId(d.tId, d.r),
                             !.createdAt = <<d.tC>>,
                             !.updatedAt = <<d.tU>>] >> \o secrets

\* StorageManager.saveSecret, between its two awaits: the array it writes,
\* computed from the array it read
savedBucket(secrets, secret, d) ==
  LET existingIndex == findIndex(secrets, secret.id)
  IN  IF existingIndex >= 1
      THEN [secrets EXCEPT ![existingIndex] =
              [secret EXCEPT !.updatedAt = <<d.tU>>]]
      ELSE Append(secrets,
             [secret EXCEPT !.id = generateId(d.tId, d.r),
                            !.createdAt = <<d.tC>>,
                            !.updatedAt = <<d.tU>>])

\* StorageManager.saveSecret
saveSecret(st, secret, d) ==
  StorageSet(st, secret.website,
    savedBucket(getSecretsForDomain(st, secret.website), secret, d))

\* deleteSecret written as secrets.splice(secrets.findIndex(...), 1): it
\* removes the first match only, and the last element when there is none
deleteSecretSplice(st, secretId, domain) ==
  LET secrets == getSecretsForDomain(st, domain)
      i       == IF findIndex(secrets, secretId) >= 1
                 THEN findIndex(secrets, secretId) ELSE Len(secrets)
  IN  StorageSet(st, domain,
        [j \in 1..(IF secrets = <<>> THEN 0 ELSE Len(secrets) - 1) |->
           IF j < i THEN secrets[j] ELSE secrets[j + 1]])

\* deleteSecret that collects the survivors from the end of the array to
\* its start
filteredSecretsBackwards(secrets, secretId) ==
  LET kept == SelectSeq(secrets, LAMBDA s : s.id # secretId)
  IN  [i \in 1..Len(kept) |-> kept[Len(kept) + 1 - i]]

\* deleteSecret that filters the id out of every bucket
deleteSecretEverywhere(st, secretId, domain) ==
  [k \in (DOMAIN st) \cup {domain} |->
     SelectSeq(getSecretsForDomain(st, k), LAMBDA s : s.id # secretId)]

\* StorageManager.deleteSecret, between its two awaits
filteredSecrets(secrets, secretId) ==
  SelectSeq(secrets, LAMBDA s : s.id # secretId)

\* StorageManager.deleteSecret
deleteSecret(st, secretId, domain) ==
  StorageSet(st, domain,
    filteredSecrets(getSecretsForDomain(st, domain), secretId))

\* the orders in which Object.keys(result) can list the keys of the store
KeyOrders(st) ==
  { ks \in [1..Cardinality(DOMAIN st) -> DOMAIN st] :
      \A i, j \in 1..Cardinality(DOMAIN st) : i # j => ks[i] # ks[j] }

\* StorageManager.getAllSecrets, the keys listed in the order keys
RECURSIVE getAllSecrets(_, _)
getAllSecrets(st, keys) ==
  IF keys = <<>> THEN <<>>
  ELSE st[Head(keys)] \o getAllSecrets(st, Tail(keys))

\* a number written by JSON.stringify and read back by JSON.parse: NaN is
\* written as null
JSONNumber(x) == IF x = NaN THEN 0 ELSE x

\* the object exportSecrets maps a record to, as it reads back from the
\* JSON text
exportEntry(s) ==
  [website |-> s.website, name |-> s.name, secret |-> s.secret,
   issuer |-> s.issuer,
   digits |-> JSONNumber(OrElse(s.digits, 6)),
   period |-> JSONNumber(OrElse(s.period, 30))]

\* StorageManager.exportSecrets at time t: the document, as JSON.parse
\* reads it back (an object with an array under secrets)
exportSecrets(st, keys, t) ==
  LET secrets == getAllSecrets(st, keys)
  IN  [shape |-> "ok", version |-> "1.0", exportDate |-> t,
       secrets |-> [i \in 1..Len(secrets) |-> exportEntry(secrets[i])]]

\* an object literal that carries a fixed id
NewSecretWithId(name, website, key, issuer, digits, period) ==
  [id |-> generateId(0, 0), website |-> website, name |-> name, secret |-> key,
   issuer |-> issuer, digits |-> digits, period |-> period,
   algorithm |-> "SHA1", createdAt |-> NoTime, updatedAt |-> NoTime]

\* the object literal handleFormSubmit and importSecrets hand to saveSecret
NewSecret(name, website, key, issuer, digits, period) ==
  [id |-> NoId, website |-> website, name |-> name, secret |-> key,
   issuer |-> issuer, digits |-> digits, period |-> period,
   algorithm |-> "SHA1", createdAt |-> NoTime, updatedAt |-> NoTime]

\* --------------------------------------------------------- store measures
RECURSIVE SetSum(_, _)
SetSum(S, f) ==
  IF S = {} THEN 0
  ELSE LET x == CHOOSE y \in S : TRUE IN f[x] + SetSum(S \ {x}, f)

\* number of records in the whole store
TotalRecords(st) == SetSum(DOMAIN st, [k \in DOMAIN st |-> Len(st[k])])

\* the (bucket, position) pairs of the store
Slots(st) == UNION { { <<k, i>> : i \in 1..Len(st[k]) } : k \in DOMAIN st }

\* the records of bucket w that carry the given id
HasId(st, w, id) == \E i \in 1..Len(getSecretsForDomain(st, w)) :
                      getSecretsForDomain(st, w)[i].id = id

\* ------------------------------------------------------------------ inputs
\* the hostnames of the pages the browser can be on
Websites == { <<"a">>, <<"b">> }

\* what the user can have typed into the form's text fields
FormTexts ==
  { [name |-> <<>>, website |-> <<"a">>, key |-> <<"M", "Y">>, issuer |-> <<>>],
    [name |-> <<" ", "n">>, website |-> <<"b", " ">>,
     key |-> <<"m", " ", "y", "=">>, issuer |-> <<"i">>],
    [name |-> <<"n">>, website |-> <<" ">>, key |-> <<"M", "Y">>, issuer |-> <<>>],
    [name |-> <<"n">>, website |-> <<"a">>, key |-> <<" ">>, issuer |-> <<>>],
    [name |-> <<"n">>, website |-> <<"b">>, key |-> <<"M", "1">>, issuer |-> <<>>] }

\* what the two selects can hold together when the form is submitted: what
\* populateForm / resetForm put there, or options the user picked
SelectChoices(d0, p0) ==
  { <<SelectAssign(DigitsOptions, d0), SelectAssign(PeriodOptions, p0)>>,
    <<6, 30>>, <<8, 60>> }

\* what populateForm / resetForm leave in the two selects of popup p
SelectChoicesDefault(p) ==
  LET e == editingSecret[p]
  IN  IF e = <<>> THEN <<6, 30>>
      ELSE << SelectAssign(DigitsOptions, OrElse(e[1].digits, 6)),
              SelectAssign(PeriodOptions, OrElse(e[1].period, 30)) >>

\* the form as submitted by popup p
FormInputs(p) ==
  LET e  == editingSecret[p]
      d0 == IF e = <<>> THEN 6 ELSE OrElse(e[1].digits, 6)
      p0 == IF e = <<>> THEN 30 ELSE OrElse(e[1].period, 30)
  IN  { [text |-> t, digits |-> c[1], period |-> c[2]] :
          t \in FormTexts, c \in SelectChoices(d0, p0) }

\* entries of an import document (a field the entry lacks is falsy)
ImportEntries ==
  { [website |-> <<"a">>, name |-> <<"n">>, secret |-> <<"M", "Y">>,
     issuer |-> <<>>, digits |-> 0, period |-> 0],
    [website |-> <<"b">>, name |-> <<"n">>, secret |-> <<"M", "1">>,
     issuer |-> <<"i">>, digits |-> 7, period |-> 45],
    [website |-> <<"a">>, name |-> <<"n">>, secret |-> <<>>,
     issuer |-> <<>>, digits |-> 8, period |-> 60],
    [website |-> <<"b">>, name |-> <<>>, secret |-> <<"M", "Y">>,
     issuer |-> <<>>, digits |-> 6, period |-> 30],
    [website |-> <<>>, name |-> <<"n">>, secret |-> <<"M", "Y">>,
     issuer |-> <<>>, digits |-> 6, period |-> 30] }

SeqsUpTo(S, n) == UNION { [1..k -> S] : k \in 0..n }

\* import documents: shape "ok" has an array under secrets; the other
\* shapes are unparsable text, no secrets field, and a non-array secrets
Docs ==
  { [shape |-> "ok", secrets |-> es] : es \in SeqsUpTo(ImportEntries, MaxDocLen) }
  \cup { [shape |-> sh, secrets |-> <<>>] :
           sh \in {"badjson", "nosecrets", "notarray"} }

\* ------------------------------------------------------------ importSecrets
\* importSecrets' check of the parsed document written without the
\* Array.isArray test: any truthy secrets field passes
DocAcceptedTruthy(doc) == doc.shape \in {"ok", "notarray"}

\* importSecrets up to its loop: JSON.parse succeeds, data.secrets is
\* truthy and Array.isArray(data.secrets); otherwise it throws
DocAccepted(doc) == doc.shape = "ok"

\* the skip test written without the name field
SkippedNoName(e) == e.website = <<>> \/ e.secret = <<>>

\* the entry is skipped by importSecrets
Skipped(e) == e.website = <<>> \/ e.name = <<>> \/ e.secret = <<>>

Surviving(entries) == SelectSeq(entries, LAMBDA e : ~Skipped(e))

\* the clock readings and random draws of n successive saveSecret calls
RECURSIVE DrawSeqs(_, _)
DrawSeqs(n, t0) ==
  IF n = 0 THEN {<<>>}
  ELSE UNION { { <<d>> \o rest : rest \in DrawSeqs(n - 1, d.tU) } : d \in Draws(t0) }

\* the loop of StorageManager.importSecrets over data.secrets; ds holds one
\* draw per saveSecret call
RECURSIVE importLoop(_, _, _)
importLoop(st, entries, ds) ==
  IF entries = <<>> THEN st
  ELSE LET e == Head(entries)
       IN  IF Skipped(e) THEN importLoop(st, Tail(entries), ds)
           ELSE importLoop(
                  saveSecret(st,
                    NewSecret(e.name, e.website, e.secret, e.issuer,
                              OrElse(e.digits, 6), OrElse(e.period, 30)),
                    Head(ds)),
                  Tail(entries), Tail(ds))

\* the value of a call that returns nothing
Undefined == [defined |-> FALSE, value |-> 0]

\* what importSecrets hands back when it does not throw: it has no return
\* statement
importSecretsReturn == Undefined

\* ----------------------------------------------------------------- history
Event(op, outcome, popup, secret, id, website, doc) ==
  [op |-> op, outcome |-> outcome, popup |-> popup, secret |-> secret,
   id |-> id, website |-> website, doc |-> doc]

\* the locals of a running handler: the secret being saved, the id and
\* website being deleted, the bucket as read, the import entries still to do
Work(secret, id, website, secrets, entries, doc) ==
  [secret |-> secret, id |-> id, website |-> website, secrets |-> secrets,
   entries |-> entries, doc |-> doc]

NoWork == Work(<<>>, NoId, <<>>, <<>>, <<>>, <<>>)

\* a step that performs no store operation
NoEvent == Event("none", "ok", "p1", <<>>, NoId, <<>>, <<>>)

\* ----------------------------------------------------------- UIController
\* the secret object built with the name as typed, no website in its place
FormSecretNameAsTyped(f) ==
  NewSecret(Trim(f.text.name),
            Trim(f.text.website),
            RemoveWhitespace(Trim(f.text.key)),
            Trim(f.text.issuer),
            f.digits, f.period)

\* the secret object handleFormSubmit builds from the form fields
FormSecret(f) ==
  LET website == Trim(f.text.website)
      name    == Trim(f.text.name)
  IN  NewSecret(IF name # <<>> THEN name ELSE website,
                website,
                RemoveWhitespace(Trim(f.text.key)),
                Trim(f.text.issuer),
                f.digits, f.period)

\* the two validation checks of handleFormSubmit
FormValid(secret) ==
  /\ secret.website # <<>>
  /\ secret.secret # <<>>
  /\ validateSecret(secret.secret)

Init ==
  /\ storage = <<>>
  /\ now = 0
  /\ view = [p \in Popups |-> "main"]
  /\ editingSecret = [p \in Popups |-> <<>>]
  /\ pc = [p \in Popups |-> "idle"]
  /\ work = [p \in Popups |-> NoWork]
  /\ last = NoEvent

\* time passes
Tick ==
  /\ now < MaxTime
  /\ now' = now + 1
  /\ last' = NoEvent
  /\ UNCHANGED <<storage, view, editingSecret, pc, work>>

\* showEditView(): the Add New / Add your first secret buttons
ShowAdd(p) ==
  /\ pc[p] = "idle"
  /\ view[p] = "main"
  /\ view' = [view EXCEPT ![p] = "edit"]
  /\ editingSecret' = [editingSecret EXCEPT ![p] = <<>>]
  /\ last' = NoEvent
  /\ UNCHANGED <<storage, now, pc, work>>

\* editSecret(secretId) -> showEditView(secret): an edit button of a card of
\* the per-site list or of the Show All list (currentSecrets is reloaded by
\* loadSecrets whenever the main view is shown); currentSecrets.find takes
\* the first record of the list that carries the id, so a record is opened
\* only if no record before it in its bucket has its id
EditSecret(p) ==
  /\ pc[p] = "idle"
  /\ view[p] = "main"
  /\ \E sl \in Slots(storage) :
       /\ findIndex(storage[sl[1]], storage[sl[1]][sl[2]].id) = sl[2]
       /\ editingSecret' = [editingSecret EXCEPT ![p] = <<storage[sl[1]][sl[2]]>>]
  /\ view' = [view EXCEPT ![p] = "edit"]
  /\ last' = NoEvent
  /\ UNCHANGED <<storage, now, pc, work>>

\* showMainView(): the back button
Back(p) ==
  /\ pc[p] = "idle"
  /\ view[p] = "edit"
  /\ view' = [view EXCEPT ![p] = "main"]
  /\ editingSecret' = [editingSecret EXCEPT ![p] = <<>>]
  /\ last' = NoEvent
  /\ UNCHANGED <<storage, now, pc, work>>

\* handleFormSubmit, validation failure: showError and return
SubmitRejected(p) ==
  /\ pc[p] = "idle"
  /\ view[p] = "edit"
  /\ \E f \in FormInputs(p) :
       LET secret == FormSecret(f)
           e      == editingSecret[p]
       IN  /\ ~FormValid(secret)
           /\ last' = Event(IF e = <<>> THEN "add" ELSE "update",
                            "ValidationError", p, <<secret>>,
                            IF e = <<>> THEN NoId ELSE e[1].id,
                            IF e = <<>> THEN <<>> ELSE e[1].website, <<>>)
  /\ UNCHANGED <<storage, now, view, editingSecret, pc, work>>

\* handleFormSubmit, validation passed: saveSecret, then showMainView; the
\* form is one of forms, the clock readings one of draws, and the store is
\* kept to cap records
SubmitSavedFrom(p, forms, draws, cap) ==
  /\ pc[p] = "idle"
  /\ view[p] = "edit"
  /\ \E f \in forms, d \in draws :
       LET e      == editingSecret[p]
           secret == IF e = <<>> THEN FormSecret(f)
                     ELSE [FormSecret(f) EXCEPT !.id = e[1].id]
       IN  /\ FormValid(secret)
           /\ storage' = saveSecret(storage, secret, d)
           /\ TotalRecords(storage') <= cap
           /\ now' = d.tU
           /\ last' = Event(IF e = <<>> THEN "add" ELSE "update",
                            "ok", p, <<secret>>,
                            IF e = <<>> THEN NoId ELSE e[1].id,
                            IF e = <<>> THEN <<>> ELSE e[1].website, <<>>)
  /\ view' = [view EXCEPT ![p] = "main"]
  /\ editingSecret' = [editingSecret EXCEPT ![p] = <<>>]
  /\ UNCHANGED <<pc, work>>

SubmitSaved(p) == SubmitSavedFrom(p, FormInputs(p), Draws(now), MaxRecords)

\* handleDelete, confirmed: deleteSecret, then showMainView
HandleDelete(p) ==
  /\ pc[p] = "idle"
  /\ view[p] = "edit"
  /\ editingSecret[p] # <<>>
  /\ LET e == editingSecret[p][1]
     IN  /\ storage' = deleteSecret(storage, e.id, e.website)
         /\ last' = Event("delete", "ok", p, <<>>, e.id, e.website, <<>>)
  /\ view' = [view EXCEPT ![p] = "main"]
  /\ editingSecret' = [editingSecret EXCEPT ![p] = <<>>]
  /\ UNCHANGED <<now, pc, work>>

\* handleImport -> importSecrets, the document is rejected:
\* 'Failed to import secrets: ...'
ImportRejected(p) ==
  /\ pc[p] = "idle"
  /\ view[p] = "main"
  /\ \E doc \in Docs :
       /\ ~DocAccepted(doc)
       /\ last' = Event("import", "ImportError", p, <<>>, NoId, <<>>, <<doc>>)
  /\ UNCHANGED <<storage, now, view, editingSecret, pc, work>>

\* handleImport -> importSecrets over a well-formed document; the document
\* is one of docs, every clock reading one of draws, and the store is kept
\* to cap records
ImportDoneFrom(p, docs, draws, cap) ==
  /\ pc[p] = "idle"
  /\ view[p] = "main"
  /\ \E doc \in docs :
       /\ DocAccepted(doc)
       /\ TotalRecords(storage) + Len(Surviving(doc.secrets)) <= cap
       /\ \E ds \in DrawSeqs(Len(Surviving(doc.secrets)), now) :
            /\ \A i \in 1..Len(ds) : ds[i] \in draws
            /\ storage' = importLoop(storage, doc.secrets, ds)
            /\ now' = IF ds = <<>> THEN now ELSE ds[Len(ds)].tU
       /\ last' = Event("import", "ok", p, <<>>, NoId, <<>>,
                        <<doc, importSecretsReturn>>)
  /\ UNCHANGED <<view, editingSecret, pc, work>>

ImportDone(p) == ImportDoneFrom(p, Docs, Draws(0), MaxRecords)

\* handleExport -> exportSecrets: the document offered for download
HandleExport(p) ==
  /\ pc[p] = "idle"
  /\ view[p] = "main"
  /\ \E keys \in KeyOrders(storage) :
       last' = Event("export", "ok", p, <<>>, NoId, <<>>,
                     <<exportSecrets(storage, keys, now)>>)
  /\ UNCHANGED <<storage, now, view, editingSecret, pc, work>>

\* handleShowAll: currentSecrets = getAllSecrets(), then renderSecrets
HandleShowAll(p) ==
  /\ pc[p] = "idle"
  /\ view[p] = "main"
  /\ \E keys \in KeyOrders(storage) :
       last' = Event("listAll", "ok", p, <<>>, NoId, <<>>,
                     <<getAllSecrets(storage, keys)>>)
  /\ UNCHANGED <<storage, now, view, editingSecret, pc, work>>

\* one step of the clock, in seconds
SecondsPerTick == 100

\* Math.floor(Date.now() / 1000) when the clock reads t
Seconds(t) == t * SecondsPerTick

\* renderSecretCard: the code and the seconds left shown on a card, or the
\* 'Invalid secret key' card
renderSecretCard(secret, clock) ==
  generateTOTP(secret.secret, NoTimestamp,
               OrElse(secret.digits, 6), OrElse(secret.period, 30), clock)

\* a tick that also expires what it shows: it empties the bucket it renders
RenderTickExpiring(p) ==
  /\ pc[p] = "idle"
  /\ \E domain \in Websites :
       /\ storage' = StorageSet(storage, domain, <<>>)
       /\ last' = Event("render", "ok", p, <<>>, NoId, domain, <<>>)
  /\ UNCHANGED <<now, view, editingSecret, pc, work>>

\* the setInterval callback of startCountdownTimer: renderSecrets over the
\* per-site list of the popup opened on website domain
RenderTick(p) ==
  /\ pc[p] = "idle"
  /\ \E domain \in Websites :
       LET secrets == getSecretsForDomain(storage, domain)
       IN  last' = Event("render", "ok", p, <<>>, NoId, domain,
                         [i \in 1..Len(secrets) |->
                            renderSecretCard(secrets[i], Seconds(now))])
  /\ UNCHANGED <<storage, now, view, editingSecret, pc, work>>

\* background.js handleTOTPShortcut; domain <<>> is no active domain, tabId
\* tells whether the second chrome.tabs.query finds a tab with an id.  The
\* outcome "sent" is the only one with a chrome.tabs.sendMessage call.
handleTOTPShortcut ==
  /\ \E domain \in Websites \cup {<<>>}, tabId \in BOOLEAN :
       LET secrets == getSecretsForDomain(storage, domain)
           secret  == secrets[1]
           r       == backgroundGenerateTOTP(secret.secret, NoTimestamp,
                        OrElse(secret.digits, 6), OrElse(secret.period, 30),
                        Seconds(now))
       IN  last' =
             IF domain = <<>>
             THEN Event("paste", "nodomain", "bg", <<>>, NoId, domain, <<>>)
             ELSE IF Len(secrets) = 0
             THEN Event("paste", "nosecrets", "bg", <<>>, NoId, domain, <<>>)
             ELSE IF ~r.ok
             THEN Event("paste", "error", "bg", <<>>, NoId, domain, <<>>)
             ELSE IF ~tabId
             THEN Event("paste", "notab", "bg", <<>>, NoId, domain, <<>>)
             ELSE Event("paste", "sent", "bg", <<>>, NoId, domain,
                        << [action |-> "pasteTOTP", code |-> r.code[1],
                            secretName |-> secret.name] >>)
  /\ UNCHANGED <<storage, now, view, editingSecret, pc, work>>

Next ==
  \/ Tick
  \/ handleTOTPShortcut
  \/ \E p \in {"p1"} :
       \/ HandleExport(p)
       \/ HandleShowAll(p)
       \/ RenderTick(p)
       \/ ShowAdd(p)
       \/ EditSecret(p)
       \/ Back(p)
       \/ SubmitRejected(p)
       \/ SubmitSaved(p)
       \/ HandleDelete(p)
       \/ ImportRejected(p)
       \/ ImportDone(p)

Spec == Init /\ [][Next]_vars

\* ------------------------------------------- one popup, three records
\* The same handlers with the store allowed one record more, so that a
\* bucket can hold two records beside the one an operation adds or removes.
\* The forms are those that pass validation with the selects left alone, the
\* clock does not advance within a saveSecret call, and the import
\* documents have three kinds of entries.
MaxListed == 3

ListForms(p) ==
  { f \in FormInputs(p) :
      /\ FormValid(FormSecret(f))
      /\ f.digits = SelectChoicesDefault(p)[1]
      /\ f.period = SelectChoicesDefault(p)[2] }

ListDraws == { d \in Draws(0) : d.tId = d.tC /\ d.tC = d.tU }

\* documents whose entries all name a website and have a name: a complete
\* entry, one with an undecodable key and digits 7, and one without key
ListDocs ==
  { doc \in Docs :
      \A i \in 1..Len(doc.secrets) :
        doc.secrets[i].website # <<>> /\ doc.secrets[i].name # <<>> }

NextList ==
  \/ Tick
  \/ \E p \in {"p1"} :
       \/ ShowAdd(p)
       \/ EditSecret(p)
       \/ Back(p)
       \/ SubmitSavedFrom(p, ListForms(p), ListDraws, MaxListed)
       \/ HandleDelete(p)
       \/ ImportRejected(p)
       \/ ImportDoneFrom(p, ListDocs, ListDraws, MaxListed)

SpecList == Init /\ [][NextList]_vars

\* ------------------------------------------------ calls of generateTOTP
\* TOTPGenerator.generateTOTP called with an explicit timestamp, at any
\* reading of the wall clock
MaxT == 61

TotpKeys == { <<"M", "Y">>, <<"M", "1">> }

ComputeCode ==
  /\ \E secret \in TotpKeys, t \in 0..MaxT,
        digits \in DigitsOptions, period \in PeriodOptions :
       LET r == generateTOTP(secret, <<t>>, digits, period, Seconds(now))
       IN  last' = Event("computeCode",
                         IF r.ok THEN "ok" ELSE "InvalidSecret",
                         "p1", <<>>, NoId, <<>>,
                         << [secret |-> secret, t |-> t, digits |-> digits,
                             period |-> period, result |-> r] >>)
  /\ UNCHANGED <<storage, now, view, editingSecret, pc, work>>

NextTotp ==
  \/ Tick
  \/ ComputeCode

SpecTotp == Init /\ [][NextTotp]_vars

\* ------------------------------------------------- calls of base32Decode
\* TOTPGenerator.base32Decode applied to every text of at most MaxCodecLen
\* characters over CodecAlphabet, and to the sixteen characters of
\* TestVector
MaxCodecLen == 4

CodecAlphabet == {"A", "b", "7", "1", "=", "U+0131"}

TestVector == <<"J","B","S","W","Y","3","D","P","E","H","P","K","3","P","X","P">>

CodecInputs ==
  UNION { [1..n -> CodecAlphabet] : n \in 0..MaxCodecLen } \cup {TestVector}

\* generateTOTP takes any digits and period it is handed: besides the
\* values of the two selects, one value outside each
AnyDigits == DigitsOptions \cup {7}
AnyPeriod == PeriodOptions \cup {45}

CallTimes == {1, 59}

\* digests hmacSha1 may resolve to: twenty bytes, of which the last one
\* selects four; those five take the values that matter, the rest is filler
ByteChoices == {0, 127, 128, 255}
HighNibbles == {0, 15}
Filler == 85

Digests ==
  { [i \in 1..20 |->
       IF i = 20 THEN 16 * h + o
       ELSE IF i \in (o + 1)..(o + 4) THEN b[i - o] ELSE Filler] :
    o \in 0..15, h \in HighNibbles, b \in [1..4 -> ByteChoices] }

\* times up to 2^48 - 1, as limbs
WideTimes ==
  { <<0, a, b, c>> : a \in {0, 1, 30, 65535}, b \in {0, 1, 65535},
                     c \in {0, 59, 65535} }

\* the calls about to be made
CodecCalls ==
  { [fn |-> "base32Decode", encoded |-> encoded] : encoded \in CodecInputs }
  \cup { [fn |-> "generateTOTP", secret |-> secret, timestamp |-> t,
          digits |-> digits, period |-> period] :
          secret \in TotpKeys, t \in CallTimes,
          digits \in AnyDigits, period \in AnyPeriod }
  \cup { [fn |-> "truncate", hmac |-> hmac, digits |-> digits] :
          hmac \in Digests, digits \in DigitsOptions }
  \cup { [fn |-> "counter", time |-> time, period |-> period] :
          time \in WideTimes, period \in PeriodOptions }

\* one call is pending
InitCodec ==
  /\ storage = <<>>
  /\ now = 0
  /\ view = [p \in Popups |-> "main"]
  /\ editingSecret = [p \in Popups |-> <<>>]
  /\ pc = [p \in Popups |-> IF p = "p1" THEN "call" ELSE "idle"]
  /\ \E call \in CodecCalls :
       work = [p \in Popups |->
                 IF p = "p1" THEN [NoWork EXCEPT !.doc = <<call>>] ELSE NoWork]
  /\ last = NoEvent

\* what every call leaves unchanged, and the call returning
Returned ==
  /\ pc' = [pc EXCEPT !["p1"] = "idle"]
  /\ work' = [work EXCEPT !["p1"] = NoWork]
  /\ UNCHANGED <<storage, now, view, editingSecret>>

Base32Decode ==
  /\ pc["p1"] = "call"
  /\ work["p1"].doc[1].fn = "base32Decode"
  /\ LET encoded == work["p1"].doc[1].encoded
         r       == base32Decode(encoded)
     IN  last' = Event("base32Decode",
                       IF r.ok THEN "ok" ELSE "InvalidEncoding",
                       "p1", <<>>, NoId, <<>>,
                       << [encoded |-> encoded, result |-> r] >>)
  /\ Returned

\* background.js handleGenerateTOTP: the response sent for a generateTOTP
\* message
handleGenerateTOTP(request, clock) ==
  LET r == backgroundGenerateTOTP(request.secret, <<request.timestamp>>,
                                  request.digits, request.period, clock)
  IN  IF r.ok THEN [success |-> TRUE, code |-> r.code, error |-> <<>>]
      ELSE [success |-> FALSE, code |-> <<>>, error |-> "Invalid secret key"]

\* one call of generateTOTP in the popup and one generateTOTP message to
\* the background page, with the same arguments
GenerateTOTP ==
  /\ pc["p1"] = "call"
  /\ work["p1"].doc[1].fn = "generateTOTP"
  /\ LET call == work["p1"].doc[1]
         r    == generateTOTP(call.secret, <<call.timestamp>>, call.digits,
                              call.period, Seconds(now))
     IN  last' = Event("generateTOTP",
                       IF r.ok THEN "ok" ELSE "InvalidSecret",
                       "p1", <<>>, NoId, <<>>,
                       << [call |-> call, result |-> r,
                           response |-> handleGenerateTOTP(call, Seconds(now))] >>)
  /\ Returned

\* generateTOTP from the point where hmacSha1 has resolved to a digest
Truncate ==
  /\ pc["p1"] = "call"
  /\ work["p1"].doc[1].fn = "truncate"
  /\ LET call == work["p1"].doc[1]
     IN  last' = Event("truncate", "ok", "p1", <<>>, NoId, <<>>,
                       << [call |-> call, value |-> truncate(call.hmac),
                           code |-> codeString(call.hmac, call.digits)] >>)
  /\ Returned

\* generateTOTP up to its hmacSha1 call: the counter of the time and the
\* message handed to hmacSha1
CounterMessage ==
  /\ pc["p1"] = "call"
  /\ work["p1"].doc[1].fn = "counter"
  /\ LET call    == work["p1"].doc[1]
         counter == DivLimbs(call.time, call.period)
     IN  last' = Event("counter", "ok", "p1", <<>>, NoId, <<>>,
                       << [call |-> call, counter |-> counter,
                           message |-> counterBytesOfLimbs(counter)] >>)
  /\ Returned

NextCodec ==
  \/ Base32Decode
  \/ GenerateTOTP
  \/ Truncate
  \/ CounterMessage

SpecCodec == InitCodec /\ [][NextCodec]_vars

\* ------------------------------------------------- handlers, await by await
\* Several popups (one per browser window) share chrome.storage.local.  A
\* handler runs up to its next await in one step; a storage get or set is
\* one atomic step of the storage backend.

\* inputs of the interleaved runs: forms for website a that pass validation
\* with the selects left alone, documents of valid entries, and clock
\* readings that agree within one saveSecret call
ConcForms(p) ==
  { f \in FormInputs(p) :
      /\ FormValid(FormSecret(f))
      /\ f.text.website = <<"a">>
      /\ f.digits = SelectChoicesDefault(p)[1]
      /\ f.period = SelectChoicesDefault(p)[2] }

ConcDocs ==
  { doc \in Docs :
      /\ doc.shape = "ok"
      /\ \A i \in 1..Len(doc.secrets) :
           ~Skipped(doc.secrets[i]) /\ validateSecret(doc.secrets[i].secret) }

ConcDraws(t0) == { d \in Draws(t0) : d.tId = t0 /\ d.tC = t0 /\ d.tU = t0 }

\* handleFormSubmit up to saveSecret's await of getSecretsForDomain
SaveRead(p) ==
  /\ pc[p] = "idle"
  /\ view[p] = "edit"
  /\ \E f \in ConcForms(p) :
       LET e      == editingSecret[p]
           secret == IF e = <<>> THEN FormSecret(f)
                     ELSE [FormSecret(f) EXCEPT !.id = e[1].id]
       IN  /\ FormValid(secret)
           /\ work' = [work EXCEPT ![p] =
                Work(<<secret>>,
                     IF e = <<>> THEN NoId ELSE e[1].id,
                     IF e = <<>> THEN <<>> ELSE e[1].website,
                     getSecretsForDomain(storage, secret.website), <<>>, <<>>)]
  /\ pc' = [pc EXCEPT ![p] = "save"]
  /\ last' = NoEvent
  /\ UNCHANGED <<storage, now, view, editingSecret>>

\* saveSecret from the read to the end of chrome.storage.local.set, then
\* showMainView
SaveWrite(p) ==
  /\ pc[p] = "save"
  /\ \E d \in ConcDraws(now) :
       LET secret == work[p].secret[1]
       IN  /\ storage' = StorageSet(storage, secret.website,
                           savedBucket(work[p].secrets, secret, d))
           /\ TotalRecords(storage') <= MaxRecords
           /\ now' = d.tU
           /\ last' = Event(IF editingSecret[p] = <<>> THEN "add" ELSE "update",
                            "ok", p, <<secret>>, work[p].id, work[p].website, <<>>)
  /\ pc' = [pc EXCEPT ![p] = "idle"]
  /\ work' = [work EXCEPT ![p] = NoWork]
  /\ view' = [view EXCEPT ![p] = "main"]
  /\ editingSecret' = [editingSecret EXCEPT ![p] = <<>>]

\* handleDelete up to deleteSecret's await of getSecretsForDomain
DeleteRead(p) ==
  /\ pc[p] = "idle"
  /\ view[p] = "edit"
  /\ editingSecret[p] # <<>>
  /\ LET e == editingSecret[p][1]
     IN  work' = [work EXCEPT ![p] =
           Work(<<>>, e.id, e.website,
                getSecretsForDomain(storage, e.website), <<>>, <<>>)]
  /\ pc' = [pc EXCEPT ![p] = "delete"]
  /\ last' = NoEvent
  /\ UNCHANGED <<storage, now, view, editingSecret>>

\* deleteSecret from the read to the end of chrome.storage.local.set, then
\* showMainView
DeleteWrite(p) ==
  /\ pc[p] = "delete"
  /\ storage' = StorageSet(storage, work[p].website,
                  filteredSecrets(work[p].secrets, work[p].id))
  /\ last' = Event("delete", "ok", p, <<>>, work[p].id, work[p].website, <<>>)
  /\ pc' = [pc EXCEPT ![p] = "idle"]
  /\ work' = [work EXCEPT ![p] = NoWork]
  /\ view' = [view EXCEPT ![p] = "main"]
  /\ editingSecret' = [editingSecret EXCEPT ![p] = <<>>]
  /\ UNCHANGED now

\* handleImport -> importSecrets: parse, shape check, enter the loop
ImportBegin(p) ==
  /\ pc[p] = "idle"
  /\ view[p] = "main"
  /\ \E doc \in ConcDocs :
       /\ work' = [work EXCEPT ![p] =
            Work(<<>>, NoId, <<>>, <<>>, doc.secrets, <<doc>>)]
  /\ pc' = [pc EXCEPT ![p] = "import"]
  /\ last' = NoEvent
  /\ UNCHANGED <<storage, now, view, editingSecret>>

\* the import loop up to the next saveSecret's await of getSecretsForDomain
\* (entries that are skipped pass without an await)
ImportRead(p) ==
  /\ pc[p] = "import"
  /\ Surviving(work[p].entries) # <<>>
  /\ LET e == Head(Surviving(work[p].entries))
         i == CHOOSE j \in 1..Len(work[p].entries) :
                /\ ~Skipped(work[p].entries[j])
                /\ \A k \in 1..(j - 1) : Skipped(work[p].entries[k])
     IN  work' = [work EXCEPT ![p] =
           [@ EXCEPT !.secret = <<NewSecret(e.name, e.website, e.secret, e.issuer,
                                            OrElse(e.digits, 6), OrElse(e.period, 30))>>,
                     !.secrets = getSecretsForDomain(storage, e.website),
                     !.entries = SubSeq(@, i + 1, Len(@))]]
  /\ pc' = [pc EXCEPT ![p] = "importSave"]
  /\ last' = NoEvent
  /\ UNCHANGED <<storage, now, view, editingSecret>>

\* that saveSecret from the read to the end of chrome.storage.local.set
ImportWrite(p) ==
  /\ pc[p] = "importSave"
  /\ \E d \in ConcDraws(now) :
       LET secret == work[p].secret[1]
       IN  /\ storage' = StorageSet(storage, secret.website,
                           savedBucket(work[p].secrets, secret, d))
           /\ TotalRecords(storage') <= MaxRecords
           /\ now' = d.tU
           /\ last' = Event("importSave", "ok", p, <<secret>>, NoId, <<>>,
                            work[p].doc)
  /\ pc' = [pc EXCEPT ![p] = "import"]
  /\ work' = [work EXCEPT ![p] = [@ EXCEPT !.secret = <<>>, !.secrets = <<>>]]
  /\ UNCHANGED <<view, editingSecret>>

\* the import loop has run out of entries: importSecrets returns
ImportEnd(p) ==
  /\ pc[p] = "import"
  /\ Surviving(work[p].entries) = <<>>
  /\ last' = Event("import", "ok", p, <<>>, NoId, <<>>,
                   work[p].doc \o <<importSecretsReturn>>)
  /\ pc' = [pc EXCEPT ![p] = "idle"]
  /\ work' = [work EXCEPT ![p] = NoWork]
  /\ UNCHANGED <<storage, now, view, editingSecret>>

NextConc ==
  \/ Tick
  \/ \E p \in Popups :
       \/ HandleShowAll(p)
       \/ ShowAdd(p)
       \/ EditSecret(p)
       \/ Back(p)
       \/ SaveRead(p)
       \/ SaveWrite(p)
       \/ DeleteRead(p)
       \/ DeleteWrite(p)
       \/ ImportBegin(p)
       \/ ImportRead(p)
       \/ ImportWrite(p)
       \/ ImportEnd(p)

SpecConc == Init /\ [][NextConc]_vars

\* ------------------------------------------------------------------ claims
AllIds == { generateId(t, r) : t \in Times, r \in 0..MaxRand }

Rec(sl) == storage[sl[1]][sl[2]]

\* the last step completed a save from the form in edit mode
UpdateDone(e) == e.op = "update" /\ e.outcome = "ok"

\* C1: every record stored in the bucket keyed by website w has its own
\* website field equal to w, after any sequence of add, update, delete and
\* import.
C1_BucketMatchesWebsite ==
  \A sl \in Slots(storage) : Rec(sl).website = sl[1]

\* C1 witness: an edit that changed the website has been saved and both
\* buckets hold a record.
C1_Witness ==
  /\ UpdateDone(last)
  /\ last.secret[1].website # last.website
  /\ \A w \in Websites : getSecretsForDomain(storage, w) # <<>>

\* C2 (as claimed): no two stored records have the same id and every stored
\* record has an id.
C2_IdsUnique ==
  /\ \A sl \in Slots(storage) : Rec(sl).id # NoId
  /\ \A s1, s2 \in Slots(storage) : s1 # s2 => Rec(s1).id # Rec(s2).id

\* C3 (as claimed): the secretKey of every stored record decodes under
\* base32Decode.
C3_StoredKeysDecode ==
  \A sl \in Slots(storage) : base32Decode(Rec(sl).secret).ok

\* C4 (as claimed): every stored record has digits in {6, 8} and period in
\* {30, 60}.
C4_DigitsPeriodEnumerated ==
  \A sl \in Slots(storage) :
    Rec(sl).digits \in DigitsOptions /\ Rec(sl).period \in PeriodOptions

\* C6 (as claimed): an update of an existing record with a website other
\* than the stored one relocates it: the old bucket no longer has the id,
\* the new bucket has it as its last element, and the number of records in
\* the store is unchanged.
C6_UpdateRelocates ==
  [][ ( /\ UpdateDone(last')
        /\ HasId(storage, last'.website, last'.id)
        /\ last'.secret[1].website # last'.website )
      => LET new == getSecretsForDomain(storage', last'.secret[1].website)
         IN  /\ ~HasId(storage', last'.website, last'.id)
             /\ new # <<>>
             /\ new[Len(new)].id = last'.id
             /\ TotalRecords(storage') = TotalRecords(storage) ]_vars

\* C7 (as claimed): a successful update of an existing record leaves its id
\* and its createdAt as they were: the record that had the id before the
\* edit is afterwards a record with the same id and the same createdAt.
C7_UpdateKeepsIdCreatedAt ==
  [][ UpdateDone(last')
      => \A sl \in Slots(storage) :
           Rec(sl).id = last'.id =>
             \E tl \in Slots(storage') :
               /\ storage'[tl[1]][tl[2]].id = Rec(sl).id
               /\ storage'[tl[1]][tl[2]].createdAt = Rec(sl).createdAt ]_vars

C10_DeleteIdempotent ==
  /\ last.op = "delete" => last.outcome = "ok"
  /\ \A id \in AllIds \cup {NoId}, w \in Websites :
       LET once == deleteSecret(storage, id, w)
       IN  /\ deleteSecret(once, id, w) = once
           /\ ~HasId(storage, w, id) =>
                \A k \in Websites :
                  getSecretsForDomain(once, k) = getSecretsForDomain(storage, k)

\* C10 witness: a delete has removed a record from a bucket that keeps
\* another one.
C10_Witness ==
  /\ last.op = "delete"
  /\ ~HasId(storage, last.website, last.id)
  /\ getSecretsForDomain(storage, last.website) # <<>>

C12_MalformedImportRejected ==
  [][ ( /\ last'.op = "import"
        /\ last'.doc[1].shape \in {"nosecrets", "notarray"} )
      => (last'.outcome = "ImportError" /\ storage' = storage) ]_vars

\* C12 witness: an import of a document with a non-array secrets field has
\* been rejected while the store holds a record.
C12_Witness ==
  /\ last.op = "import"
  /\ last.outcome = "ImportError"
  /\ last.doc[1].shape = "notarray"
  /\ TotalRecords(storage) >= 1

\* the (website, name, secretKey, issuer, digits, period) tuples of a store
Tuples(st) ==
  { << st[sl[1]][sl[2]].website, st[sl[1]][sl[2]].name, st[sl[1]][sl[2]].secret,
       st[sl[1]][sl[2]].issuer, st[sl[1]][sl[2]].digits, st[sl[1]][sl[2]].period >> :
      sl \in Slots(st) }

\* C13 (as claimed): importing the export of the store into an empty store
\* yields a store with the same set of (website, name, secretKey, issuer,
\* digits, period) tuples, every record of it carrying a generated id.
C13_ExportImportRoundTrip ==
  \A keys \in KeyOrders(storage) :
    LET doc == exportSecrets(storage, keys, now)
    IN  \A ds \in DrawSeqs(Len(Surviving(doc.secrets)), now) :
          LET back == importLoop(<<>>, doc.secrets, ds)
          IN  /\ Tuples(back) = Tuples(storage)
              /\ \A sl \in Slots(back) : back[sl[1]][sl[2]].id \in AllIds

\* C14: after a successful add of an input with website w the bucket of w
\* is the bucket as it was followed by one record whose website, name,
\* secretKey, issuer, digits and period are those of the input.
C14_AddAppends ==
  [][ ( /\ last'.op = "add"
        /\ last'.outcome = "ok" )
      => LET s    == last'.secret[1]
             pre  == getSecretsForDomain(storage, s.website)
             post == getSecretsForDomain(storage', s.website)
         IN  /\ Len(post) = Len(pre) + 1
             /\ SubSeq(post, 1, Len(pre)) = pre
             /\ post[Len(post)].website = s.website
             /\ post[Len(post)].name = s.name
             /\ post[Len(post)].secret = s.secret
             /\ post[Len(post)].issuer = s.issuer
             /\ post[Len(post)].digits = s.digits
             /\ post[Len(post)].period = s.period ]_vars

\* C14 witness: an add has put a third record into a bucket.
C14_Witness ==
  /\ last.op = "add"
  /\ last.outcome = "ok"
  /\ Len(getSecretsForDomain(storage, last.secret[1].website)) = 3

\* a is b with some of its elements left out
RECURSIVE IsSubSeq(_, _)
IsSubSeq(a, b) ==
  IF a = <<>> THEN TRUE
  ELSE IF b = <<>> THEN FALSE
  ELSE IF Head(a) = Head(b) THEN IsSubSeq(Tail(a), Tail(b))
  ELSE IsSubSeq(a, Tail(b))

\* the id occurs once in the bucket; its position
Once(secrets, id) == Cardinality({ i \in 1..Len(secrets) : secrets[i].id = id }) = 1
Pos(secrets, id) == CHOOSE i \in 1..Len(secrets) : secrets[i].id = id

\* C15: getSecretsForDomain returns the bucket in insertion order and the
\* empty sequence for a missing bucket, and no operation reorders a bucket:
\* an add or import leaves the old records first and in place, an edit that
\* keeps the website keeps every position, a delete leaves the survivors in
\* their order, and two records identified by their ids that are in a
\* bucket before and after a step keep their relative order.
C15_OrderKept ==
  [][ \A w \in Websites :
        LET pre  == getSecretsForDomain(storage, w)
            post == getSecretsForDomain(storage', w)
        IN  /\ w \notin DOMAIN storage' => post = <<>>
            /\ pre = post
               \/
               /\ last'.op \in {"add", "import"}
                    => Len(post) >= Len(pre) /\ SubSeq(post, 1, Len(pre)) = pre
               /\ (UpdateDone(last') /\ last'.secret[1].website = last'.website)
                    => /\ Len(post) = Len(pre)
                       /\ \A i \in 1..Len(pre) : post[i].id = pre[i].id
               /\ last'.op = "delete" => IsSubSeq(post, pre)
               /\ \A id1, id2 \in AllIds :
                    ( /\ Once(pre, id1) /\ Once(pre, id2)
                      /\ Once(post, id1) /\ Once(post, id2)
                      /\ Pos(pre, id1) < Pos(pre, id2) )
                    => Pos(post, id1) < Pos(post, id2) ]_vars

\* C15 witness: a delete has removed one record of a bucket of three and
\* left two different records.
C15_Witness ==
  /\ last.op = "delete"
  /\ Len(getSecretsForDomain(storage, last.website)) = 2
  /\ getSecretsForDomain(storage, last.website)[1]
       # getSecretsForDomain(storage, last.website)[2]

\* C16: an import only appends: whatever the document contains, every
\* record stored before it is afterwards in the same bucket at the same
\* position with every field, the id included, as it was.
C16_ImportOnlyAppends ==
  [][ last'.op = "import"
      => \A sl \in Slots(storage) :
           /\ sl \in Slots(storage')
           /\ storage'[sl[1]][sl[2]] = Rec(sl) ]_vars

\* C16 witness: an import of a one-entry document has added a third record
\* to a bucket that held two.
C16_Witness ==
  /\ last.op = "import"
  /\ last.outcome = "ok"
  /\ Len(last.doc[1].secrets) = 1
  /\ Len(getSecretsForDomain(storage, last.doc[1].secrets[1].website)) = 3

\* C17: a step that is not an add, an edit, a delete or an import leaves
\* the store as it was: listing a bucket, listing all, export, computing a
\* code, the one-second re-render, Show All and the paste shortcut change
\* no bucket.
C17_OnlyWritersChangeStore ==
  [][ last'.op \notin {"add", "update", "delete", "import"}
      => storage' = storage ]_vars

\* C17 witness: the re-render tick has computed the cards of a bucket while
\* the store holds two records.
C17_Witness ==
  /\ last.op = "render"
  /\ last.doc # <<>>
  /\ TotalRecords(storage) = 2

\* C19 (as claimed): a paste message is sent only when the bucket of the
\* active website holds a record, and the code it carries is the code of the
\* first record of that bucket: computed from that record's key, with that
\* record's digits, for the counter of the current time under that record's
\* period.
C19_PasteUsesFirstRecord ==
  [][ last'.op = "paste"
      => LET secrets == getSecretsForDomain(storage, last'.website)
         IN  /\ secrets = <<>> => (last'.outcome # "sent" /\ last'.doc = <<>>)
             /\ last'.outcome = "sent"
                  => /\ secrets # <<>>
                     /\ last'.doc[1].secretName = secrets[1].name
                     /\ last'.doc[1].code.hmac[1] = base32Decode(secrets[1].secret).bytes
                     /\ last'.doc[1].code.digits = secrets[1].digits
                     /\ \E c \in 0..Seconds(now) :
                          /\ c * secrets[1].period <= Seconds(now)
                          /\ Seconds(now) < (c + 1) * secrets[1].period
                          /\ last'.doc[1].code.hmac[2] = counterBytes(c) ]_vars

\* C20 (as claimed): for every time t >= 0 and period 30 or 60, a call of
\* generateTOTP with time t returns timeRemaining = period - (t mod period),
\* a value from 1 to period; and of two calls for the same period with
\* times t1 < t2 in the same period window, the first returns t2 - t1 more
\* than the second.
C20_SecondsRemaining ==
  [][ ( /\ last'.op = "computeCode"
        /\ last'.outcome = "ok" )
      => LET c2 == last'.doc[1]
         IN  /\ c2.result.timeRemaining = c2.period - (c2.t % c2.period)
             /\ c2.result.timeRemaining \in 1..c2.period
             /\ ( /\ last.op = "computeCode"
                  /\ last.outcome = "ok"
                  /\ last.doc[1].period = c2.period
                  /\ last.doc[1].t < c2.t
                  /\ last.doc[1].t \div c2.period = c2.t \div c2.period )
                => last.doc[1].result.timeRemaining - c2.result.timeRemaining
                     = c2.t - last.doc[1].t ]_vars

\* C21 (as claimed): generateTOTP is a function of (secret, timestamp,
\* digits, period) alone: for every explicitly supplied timestamp, 0
\* included, the call returns the same code and the same timeRemaining at
\* every reading of the wall clock, in the popup and in the background copy.
C21_Deterministic ==
  ( /\ last.op = "computeCode"
    /\ last.outcome = "ok" )
  => LET c == last.doc[1]
     IN  \A clock \in Times :
           /\ generateTOTP(c.secret, <<c.t>>, c.digits, c.period,
                           Seconds(clock)) = c.result
           /\ backgroundGenerateTOTP(c.secret, <<c.t>>, c.digits, c.period,
                                     Seconds(clock)).code = c.result.code

\* the RFC 4648 Base32 alphabet: the 5-bit value of each symbol, in either
\* letter case
RFC4648 ==
  [c \in {"A","a"} |-> 0]   @@ [c \in {"B","b"} |-> 1]
  @@ [c \in {"C","c"} |-> 2]  @@ [c \in {"D","d"} |-> 3]
  @@ [c \in {"E","e"} |-> 4]  @@ [c \in {"F","f"} |-> 5]
  @@ [c \in {"G","g"} |-> 6]  @@ [c \in {"H","h"} |-> 7]
  @@ [c \in {"I","i"} |-> 8]  @@ [c \in {"J","j"} |-> 9]
  @@ [c \in {"K","k"} |-> 10] @@ [c \in {"L","l"} |-> 11]
  @@ [c \in {"M","m"} |-> 12] @@ [c \in {"N","n"} |-> 13]
  @@ [c \in {"O","o"} |-> 14] @@ [c \in {"P","p"} |-> 15]
  @@ [c \in {"Q","q"} |-> 16] @@ [c \in {"R","r"} |-> 17]
  @@ [c \in {"S","s"} |-> 18] @@ [c \in {"T","t"} |-> 19]
  @@ [c \in {"U","u"} |-> 20] @@ [c \in {"V","v"} |-> 21]
  @@ [c \in {"W","w"} |-> 22] @@ [c \in {"X","x"} |-> 23]
  @@ [c \in {"Y","y"} |-> 24] @@ [c \in {"Z","z"} |-> 25]
  @@ [c \in {"2"} |-> 26] @@ [c \in {"3"} |-> 27] @@ [c \in {"4"} |-> 28]
  @@ [c \in {"5"} |-> 29] @@ [c \in {"6"} |-> 30] @@ [c \in {"7"} |-> 31]

\* the text without its trailing '=' characters
RefUnpadded(text) ==
  LET keep == CHOOSE n \in 0..Len(text) :
                /\ n = 0 \/ text[n] # "="
                /\ \A i \in (n + 1)..Len(text) : text[i] = "="
  IN  SubSeq(text, 1, keep)

\* bit p (from 0) of the concatenated 5-bit values of s, most significant
\* bit of each value first
RefBit(s, p) ==
  LET v == RFC4648[s[(p \div 5) + 1]]
      k == 4 - (p % 5)
  IN  (v \div (2 ^ k)) % 2

\* the reference decoder: the first floor(5n/8) whole bytes of the bits
RefDecode(text) ==
  LET s == RefUnpadded(text)
  IN  IF \E i \in 1..Len(s) : s[i] \notin DOMAIN RFC4648
      THEN [ok |-> FALSE, bytes |-> <<>>]
      ELSE [ok |-> TRUE,
            bytes |-> [j \in 1..((5 * Len(s)) \div 8) |->
                         128 * RefBit(s, 8 * j - 8) + 64 * RefBit(s, 8 * j - 7)
                         + 32 * RefBit(s, 8 * j - 6) + 16 * RefBit(s, 8 * j - 5)
                         + 8 * RefBit(s, 8 * j - 4) + 4 * RefBit(s, 8 * j - 3)
                         + 2 * RefBit(s, 8 * j - 2) + RefBit(s, 8 * j - 1)]]

\* C22 (as claimed): base32Decode equals the reference decoder on every
\* input: trailing '=' removed, each character mapped case-insensitively to
\* its 5-bit RFC 4648 value, the bits concatenated and the first floor(5n/8)
\* whole bytes returned; it fails exactly when a remaining character is
\* outside A-Z, 2-7; and "JBSWY3DPEHPK3PXP" decodes to
\* 48 65 6c 6c 6f 21 de ad be ef.
C22_DecodeMatchesReference ==
  last.op = "base32Decode"
  => /\ last.doc[1].result = RefDecode(last.doc[1].encoded)
     /\ last.doc[1].encoded = TestVector
        => last.doc[1].result =
             [ok |-> TRUE,
              bytes |-> <<72, 101, 108, 108, 111, 33, 222, 173, 190, 239>>]

\* C23 (as claimed): generateTOTP called with digits other than 6 and 8, or
\* with a period other than 30 and 60, fails with UnsupportedParameters: it
\* returns no code, in the popup and in answer to a background message
\* (stated for a decodable secret, so that no other failure is in play).
C23_UnsupportedRejected ==
  ( /\ last.op = "generateTOTP"
    /\ base32Decode(last.doc[1].call.secret).ok
    /\ \/ last.doc[1].call.digits \notin DigitsOptions
       \/ last.doc[1].call.period \notin PeriodOptions )
  => /\ last.outcome = "UnsupportedParameters"
     /\ ~last.doc[1].result.ok
     /\ ~last.doc[1].response.success

\* C24 (as claimed): a successful add stores its record with createdAt equal
\* to updatedAt, one reading of the clock taken during the add, also when
\* the clock advances while the add runs.
C24_AddStampsEqual ==
  [][ ( /\ last'.op = "add"
        /\ last'.outcome = "ok" )
      => LET post == getSecretsForDomain(storage', last'.secret[1].website)
             rec  == post[Len(post)]
         IN  /\ rec.createdAt # NoTime
             /\ rec.createdAt = rec.updatedAt
             /\ rec.createdAt[1] \in now..now' ]_vars

\* C25 (as claimed): an import that completes returns the number of records
\* it imported, that is the number of entries it did not skip.
C25_ImportReturnsCount ==
  [][ ( /\ last'.op = "import"
        /\ last'.outcome = "ok" )
      => /\ last'.doc[2].defined
         /\ last'.doc[2].value = Len(Surviving(last'.doc[1].secrets))
         /\ last'.doc[2].value = TotalRecords(storage') - TotalRecords(storage)
    ]_vars

\* C26 (as claimed): the exported document has version "1.0" and one entry
\* per stored record, over all buckets; each entry carries exactly the
\* fields website, name, secret, issuer, digits and period, with the values
\* stored in its record (and so no id, createdAt or updatedAt).
C26_ExportFaithful ==
  last.op = "export"
  => LET doc == last.doc[1]
     IN  /\ doc.version = "1.0"
         /\ Len(doc.secrets) = TotalRecords(storage)
         /\ \E keys \in KeyOrders(storage) :
              LET all == getAllSecrets(storage, keys)
              IN  \A i \in 1..Len(all) :
                    /\ DOMAIN doc.secrets[i] =
                         {"website", "name", "secret", "issuer", "digits", "period"}
                    /\ doc.secrets[i].website = all[i].website
                    /\ doc.secrets[i].name = all[i].name
                    /\ doc.secrets[i].secret = all[i].secret
                    /\ doc.secrets[i].issuer = all[i].issuer
                    /\ doc.secrets[i].digits = all[i].digits
                    /\ doc.secrets[i].period = all[i].period

\* the number a string of decimal digits denotes
RECURSIVE Denoted(_)
Denoted(str) ==
  IF str = <<>> THEN 0
  ELSE 10 * Denoted(SubSeq(str, 1, Len(str) - 1))
       + (CHOOSE v \in 0..9 : Digits[v + 1] = str[Len(str)])

\* RFC 4226 dynamic truncation of a digest: the four bytes at the offset
\* given by the low four bits of the last byte, read as a big-endian number,
\* less its top bit
RefTruncated(hmac) ==
  LET last4 == hmac[Len(hmac)]
      o     == last4 - 16 * (last4 \div 16)
      b1    == hmac[o + 1]
  IN  (b1 - 128 * (b1 \div 128)) * (2 ^ 24) + hmac[o + 2] * (2 ^ 16)
      + hmac[o + 3] * (2 ^ 8) + hmac[o + 4]

\* C27: for 6 and 8 digits the code is a string of exactly that many decimal
\* digits, denoting the 31-bit dynamically truncated value of the digest
\* modulo 10^digits (so left-padded with zeros), and the truncated value is
\* never negative.
C27_CodeIsTruncatedValue ==
  ( /\ last.op = "truncate"
    /\ last.doc[1].call.digits \in DigitsOptions )
  => LET c == last.doc[1]
         d == c.call.digits
     IN  /\ c.value >= 0
         /\ c.value = RefTruncated(c.call.hmac)
         /\ Len(c.code) = d
         /\ \A i \in 1..d : \E v \in 0..9 : c.code[i] = Digits[v + 1]
         /\ Denoted(c.code) = RefTruncated(c.call.hmac) % (10 ^ d)

\* C27 witness: a digest whose first selected byte has its top bit set, at
\* an offset other than 0, has given a code that needed padding.
C27_Witness ==
  /\ last.op = "truncate"
  /\ last.doc[1].call.hmac[20] % 16 > 0
  /\ last.doc[1].call.hmac[(last.doc[1].call.hmac[20] % 16) + 1] >= 128
  /\ last.doc[1].code[1] = "0"
  /\ last.doc[1].value > 0

\* q * m + r on limbs, for small m and r: the carry out of limb i, and the
\* limbs of the result
RECURSIVE MulCarry(_, _, _, _)
MulCarry(q, m, r, i) ==
  IF i = 5 THEN r
  ELSE (q[i] * m + MulCarry(q, m, r, i + 1)) \div Limb

MulAdd(q, m, r) ==
  [i \in 1..4 |-> (q[i] * m + MulCarry(q, m, r, i + 1)) % Limb]

\* the 8-byte big-endian encoding of a number given as limbs
BigEndian8(n) ==
  << n[1] \div 256, n[1] % 256, n[2] \div 256, n[2] % 256,
     n[3] \div 256, n[3] % 256, n[4] \div 256, n[4] % 256 >>

\* C28 (as claimed): for every time t >= 0 the message handed to hmacSha1
\* is the 8-byte big-endian encoding of counter = floor(t / period), also
\* for counters of 2^32 and more, whose high bits go into the upper four
\* bytes.
C28_MessageIsBigEndianCounter ==
  last.op = "counter"
  => LET c == last.doc[1]
     IN  /\ \E r \in 0..(c.call.period - 1) :
              MulAdd(c.counter, c.call.period, r) = c.call.time
         /\ c.message = BigEndian8(c.counter)

\* C29: a delete of id in the bucket of website w changes nothing but what
\* it removes: every other bucket is as it was, and every record of bucket w
\* with another id is kept, unchanged and in place among the others; so a
\* record with that id in a bucket other than w survives.
C29_DeleteFrame ==
  [][ last'.op = "delete"
      => LET id   == last'.id
             w    == last'.website
             pre  == getSecretsForDomain(storage, w)
             post == getSecretsForDomain(storage', w)
         IN  /\ DOMAIN storage' \subseteq (DOMAIN storage) \cup {w}
             /\ \A k \in (DOMAIN storage) \ {w} :
                  k \in DOMAIN storage' /\ storage'[k] = storage[k]
             /\ IsSubSeq(post, pre)
             /\ \A i \in 1..Len(pre) :
                  pre[i].id # id
                  => Cardinality({ j \in 1..Len(post) : post[j] = pre[i] })
                       = Cardinality({ j \in 1..Len(pre) : pre[j] = pre[i] })
    ]_vars

\* C29 witness: a delete has been done while another bucket holds a record
\* with the deleted id, and that record is still there.
C29_Witness ==
  /\ last.op = "delete"
  /\ \E k \in (DOMAIN storage) \ {last.website} : HasId(storage, k, last.id)

\* C30: every stored record has a non-empty website, a non-empty name and
\* a non-empty secret (the form puts the website in place of an empty name
\* and rejects an empty website or key; import skips an entry lacking one).
C30_RequiredFieldsPresent ==
  \A sl \in Slots(storage) :
    /\ Rec(sl).website # <<>>
    /\ Rec(sl).name # <<>>
    /\ Rec(sl).secret # <<>>

\* C30 witness: a form submitted with an empty name has been saved, next to
\* a second record, under the name of its website.
C30_Witness ==
  /\ last.op = "add"
  /\ last.outcome = "ok"
  /\ last.secret[1].name = last.secret[1].website
  /\ TotalRecords(storage) = 2
  /\ \E sl \in Slots(storage) : Rec(sl).name = Rec(sl).website

\* C31 (as claimed): with one popup as the only caller, confirming Delete on
\* a record opened for editing leaves no record with the id of that record
\* in any bucket.
C31_DeletedIdGone ==
  [][ last'.op = "delete"
      => \A k \in DOMAIN storage' : ~HasId(storage', k, last'.id) ]_vars

\* C5 (as claimed): mutating operations on a bucket are serialized: every
\* add, update and delete takes effect as one atomic read-modify-write, so
\* the store after its write is what the operation yields on the store as it
\* stood just before that write, and two concurrent adds leave both records.
C5_WritesSerialized ==
  [][ /\ (last'.op \in {"add", "update"} /\ last'.outcome = "ok")
         => \E d \in Draws(0) :
              storage' = saveSecret(storage, last'.secret[1], d)
      /\ last'.op = "delete"
         => storage' = deleteSecret(storage, last'.id, last'.website) ]_vars

\* the number of records the import running in popup q has written so far
ImportWritten(q) ==
  Len(work[q].doc[1].secrets) - Len(work[q].entries)
    - (IF pc[q] = "importSave" THEN 1 ELSE 0)

\* C18 (as claimed): an import is atomic for the other callers: a Show All
\* (getAllSecrets) of another popup taken while an import of a document
\* with several valid entries is running sees none or all of the
\* document's records.
C18_ImportAtomic ==
  [][ last'.op = "listAll"
      => \A q \in Popups \ {last'.popup} :
           ( /\ pc[q] \in {"import", "importSave"}
             /\ Len(work[q].doc[1].secrets) >= 2 )
           => ImportWritten(q) \in {0, Len(work[q].doc[1].secrets)} ]_vars

\* C8 (as claimed): an update whose id no stored record has (neither when
\* the handler read the bucket nor when it wrote) fails with NotFound and
\* leaves the store unchanged.
C8_UpdateMissingIdFails ==
  [][ ( /\ last'.op = "update"
        /\ findIndex(work[last'.popup].secrets, last'.id) = 0
        /\ \A sl \in Slots(storage) : Rec(sl).id # last'.id )
      => (last'.outcome = "NotFound" /\ storage' = storage) ]_vars

====
